---------------------------- MODULE Spec2Model ----------------------------
(***************************************************************************)
(* A model of the torserde codec (src/src/lib.rs): the TorSerde trait and  *)
(* its implementations for the unsigned scalars, [u8; N], String,          *)
(* DateTime<Local>, Ipv4Addr, Ipv6Addr, IpAddr, NLengthVector<T, N> and    *)
(* VersionsVector.                                                         *)
(*                                                                         *)
(* Representation of the Rust values:                                      *)
(*   u8, u16          a natural number.                                    *)
(*   u32, u64, u128   a sequence of 2, 4, 8 sixteen-bit limbs, the least   *)
(*                    significant limb first (TLC's integers are 32 bits   *)
(*                    wide, so a wider integer cannot be one number).      *)
(*   i64              4 limbs, two's complement, least significant first.  *)
(*   [u8; N], String  the sequence of bytes (String: its as_bytes()).      *)
(*   Ipv4Addr         its 4 octets; Ipv6Addr: its 16 octets.               *)
(*   IpAddr           <<"V4", octets>> or <<"V6", octets>>.                *)
(*   DateTime<Local>  <<secs, nanos>>: the i64 Unix seconds and the        *)
(*                    sub-second nanoseconds of the instant.               *)
(*   NLengthVector, VersionsVector   the sequence of the elements.         *)
(* A type is a tuple: <<"u8">>, <<"arr", N>>, <<"nlv", T, N>>, ...         *)
(* The sink is a Vec<u8> (a write never fails), the source a byte slice.   *)
(*                                                                         *)
(* A Rust value is of one type, and so is the Result of a decoder: the     *)
(* state holds a value together with its type (self), and an outcome       *)
(* together with the type decoded and its kind (result).                   *)
(***************************************************************************)
EXTENDS Integers, Sequences, FiniteSets, TLC

VARIABLES phase, self, sink, ret, src, framing, result

vars == <<phase, self, sink, ret, src, framing, result>>

\* the type Self of the call, the value serialised and the outcome of the decoder
ty == self[1]
val == self[2]
out == result[3]

(***************************************************************************)
(* Bounds of the model.                                                    *)
(***************************************************************************)
\* the longest source of arbitrary bytes handed to a decoder
MaxSrcLen == 3
\* written bytes no longer than this are cut at every offset
MaxWritten == 40
\* longer ones are cut at offsets up to this one; a byte is replaced at
\* offsets up to this one
MaxCut == 7
\* how far the long lists exceed the range of a 1-byte count (2^8 - 1)
Excess == 2

(***************************************************************************)
(* Types.                                                                  *)
(***************************************************************************)
U8 == <<"u8">>
U16 == <<"u16">>
U32 == <<"u32">>
U64 == <<"u64">>
U128 == <<"u128">>
STR == <<"string">>
DATETIME == <<"datetime">>
IPV4 == <<"ipv4">>
IPV6 == <<"ipv6">>
IPADDR == <<"ipaddr">>
VERSIONS == <<"versions">>
ARR(n) == <<"arr", n>>
NLV(t, n) == <<"nlv", t, n>>

Scalars == {U8, U16, U32, U64, U128}

\* size_of of a scalar type: the number of bytes bincode's fixint encoding gives it
Width(t) ==
  CASE t = U8 -> 1
    [] t = U16 -> 2
    [] t = U32 -> 4
    [] t = U64 -> 8
    [] t = U128 -> 16

\* the number of values of a byte
Pow2_8 == 256
Pow2_16 == Pow2_8 * Pow2_8


(***************************************************************************)
(* bincode, fixint encoding, big endian (BINCODE_OPTIONS).                 *)
(***************************************************************************)
\* the two bytes of a 16-bit limb, most significant first
LimbBytes(l) == <<l \div Pow2_8, l % Pow2_8>>

\* BINCODE_OPTIONS.serialize_into for a scalar of type t: Width(t) bytes,
\* most significant first
BINCODE_OPTIONS_serialize(t, v) ==
  CASE t = U8 -> <<v>>
    [] t = U16 -> LimbBytes(v)
    [] OTHER ->
         LET n == Len(v)
         IN [j \in 1..(2 * n) |-> LimbBytes(v[n - ((j - 1) \div 2)])[2 - (j % 2)]]

\* a variant of FromBigEndian: the bytes read least significant first
FromLittleEndian(t, b) ==
  CASE t = U8 -> b[1]
    [] t = U16 -> b[2] * Pow2_8 + b[1]
    [] OTHER ->
         LET n == Width(t) \div 2
         IN [i \in 1..n |-> b[2 * i] * Pow2_8 + b[2 * i - 1]]

\* the scalar of type t that Width(t) big-endian bytes stand for
FromBigEndian(t, b) ==
  CASE t = U8 -> b[1]
    [] t = U16 -> b[1] * Pow2_8 + b[2]
    [] OTHER ->
         LET n == Width(t) \div 2
         IN [i \in 1..n |-> b[2 * (n - i) + 1] * Pow2_8 + b[2 * (n - i) + 2]]

(***************************************************************************)
(* Casts and conversions of the standard library and of chrono.            *)
(***************************************************************************)
\* a variant of AsUnsigned: a length out of range becomes the largest count
AsUnsigned_saturating(t, len) ==
  CASE t = U8 -> IF len < Pow2_8 THEN len ELSE Pow2_8 - 1
    [] t = U16 -> IF len < Pow2_16 THEN len ELSE Pow2_16 - 1
    [] t = U32 -> <<len % Pow2_16, (len \div Pow2_16) % Pow2_16>>

\* `len as u8`, `len as u16`, `len as u32` of a usize: the low bits are kept
AsUnsigned(t, len) ==
  CASE t = U8 -> len % Pow2_8
    [] t = U16 -> len % Pow2_16
    [] t = U32 -> <<len % Pow2_16, (len \div Pow2_16) % Pow2_16>>

\* the scalar type of an N-byte count
CountType(n) ==
  CASE n = 1 -> U8
    [] n = 2 -> U16
    [] n = 4 -> U32

\* `x as u32` of the count read, as the bound of the decode loop
CountAsNat(t, c) == IF t = U32 THEN c[2] * Pow2_16 + c[1] ELSE c

\* u32::from(Ipv4Addr), u128::from(Ipv6Addr): the octets read big-endian
BitsFromOctets(o) ==
  LET n == Len(o) \div 2
  IN [i \in 1..n |-> o[2 * (n - i) + 1] * Pow2_8 + o[2 * (n - i) + 2]]

\* Ipv4Addr::from(u32), Ipv6Addr::from(u128)
OctetsFromBits(v) ==
  LET n == Len(v)
  IN [j \in 1..(2 * n) |-> LimbBytes(v[n - ((j - 1) \div 2)])[2 - (j % 2)]]

\* DateTime::timestamp() as u32: the low 32 bits of the i64 second count
TimestampAsU32(d) == <<d[1][1], d[1][2]>>

\* Local.timestamp(t as i64, 0): the instant t seconds after the epoch
LocalTimestamp(t) == <<<<t[1], t[2], 0, 0>>, 0>>

(***************************************************************************)
(* bin_serialise_into and serialised_length.  The result of a call that    *)
(* returns Ok(n) is the bytes appended to the sink and n; a call that      *)
(* reaches unreachable!() panics.                                          *)
(***************************************************************************)
SerOk(bytes, n) == [kind |-> "ok", bytes |-> bytes, ret |-> n]
SerPanic(bytes) == [kind |-> "panic", bytes |-> bytes, ret |-> 0]

\* one call after another on the same sink (the ? between them)
SerThen(a, b) ==
  IF a.kind # "ok" THEN a
  ELSE IF b.kind # "ok" THEN SerPanic(a.bytes \o b.bytes)
  ELSE SerOk(a.bytes \o b.bytes, a.ret + b.ret)

Scalar_serialised_length(t) == Width(t)

Scalar_bin_serialise_into(t, v) ==
  SerOk(BINCODE_OPTIONS_serialize(t, v), Scalar_serialised_length(t))

DateTime_serialised_length == Width(U32)

DateTime_bin_serialise_into(d) == Scalar_bin_serialise_into(U32, TimestampAsU32(d))

Ipv4Addr_serialised_length == Width(U32)

Ipv4Addr_bin_serialise_into(a) == Scalar_bin_serialise_into(U32, BitsFromOctets(a))

Ipv6Addr_serialised_length == Width(U128)

Ipv6Addr_bin_serialise_into(a) == Scalar_bin_serialise_into(U128, BitsFromOctets(a))

IpAddr_serialised_length(a) ==
  2 + (IF a[1] = "V4" THEN Ipv4Addr_serialised_length ELSE Ipv6Addr_serialised_length)

IpAddr_bin_serialise_into(a) ==
  IF a[1] = "V4"
  THEN SerThen(Scalar_bin_serialise_into(U8, 4),
         SerThen(Scalar_bin_serialise_into(U8, 4), Ipv4Addr_bin_serialise_into(a[2])))
  ELSE SerThen(Scalar_bin_serialise_into(U8, 6),
         SerThen(Scalar_bin_serialise_into(U8, 16), Ipv6Addr_bin_serialise_into(a[2])))

String_serialised_length(s) == 1 + Len(s)

\* a variant of String_bin_serialise_into: the sentinel byte is not written
String_bin_serialise_into_unterminated(s) == SerOk(s, String_serialised_length(s))

String_bin_serialise_into(s) ==
  LET written == SerThen(SerOk(s, 0), Scalar_bin_serialise_into(U8, 0))
  IN SerOk(written.bytes, String_serialised_length(s))

Array_serialised_length(a) == Len(a)

RECURSIVE bin_serialise_into(_, _)
RECURSIVE serialise_items(_, _, _, _)
RECURSIVE serialised_length(_, _)
RECURSIVE fold_lengths(_, _, _, _)

\* `for item in self.0.iter() { total += item.bin_serialise_into(stream)? }`
\* over the items lo..hi.  The loop is evaluated by halving the range, which
\* composes the same calls in the same order as the iteration does.
serialise_items(t, xs, lo, hi) ==
  IF lo > hi THEN SerOk(<<>>, 0)
  ELSE IF lo = hi THEN bin_serialise_into(t, xs[lo])
  ELSE LET mid == (lo + hi) \div 2
       IN SerThen(serialise_items(t, xs, lo, mid), serialise_items(t, xs, mid + 1, hi))

\* `fold(acc, |acc, x| acc + x.serialised_length())` over the items lo..hi
fold_lengths(t, xs, lo, hi) ==
  IF lo > hi THEN 0
  ELSE IF lo = hi THEN serialised_length(t, xs[lo])
  ELSE LET mid == (lo + hi) \div 2
       IN fold_lengths(t, xs, lo, mid) + fold_lengths(t, xs, mid + 1, hi)

Array_bin_serialise_into(n, a) ==
  LET written == serialise_items(U8, a, 1, n)
  IN IF written.kind # "ok" THEN written ELSE SerOk(written.bytes, n)

NLengthVector_serialised_length(t, n, xs) == n + fold_lengths(t, xs, 1, Len(xs))

NLengthVector_bin_serialise_into(t, n, xs) ==
  IF n \notin {1, 2, 4} THEN SerPanic(<<>>)
  ELSE SerThen(Scalar_bin_serialise_into(CountType(n), AsUnsigned(CountType(n), Len(xs))),
               serialise_items(t, xs, 1, Len(xs)))

VersionsVector_serialised_length(xs) == Len(xs) * 2

\* a variant of VersionsVector_bin_serialise_into: the prefix is the number of
\* elements, not of bytes
VersionsVector_bin_serialise_into_count(xs) ==
  LET written == SerThen(Scalar_bin_serialise_into(U16, AsUnsigned(U16, Len(xs))),
                         serialise_items(U16, xs, 1, Len(xs)))
  IN IF written.kind # "ok" THEN written
     ELSE SerOk(written.bytes, VersionsVector_serialised_length(xs))

VersionsVector_bin_serialise_into(xs) ==
  LET written == SerThen(Scalar_bin_serialise_into(U16, AsUnsigned(U16, Len(xs) * 2)),
                         serialise_items(U16, xs, 1, Len(xs)))
  IN IF written.kind # "ok" THEN written
     ELSE SerOk(written.bytes, VersionsVector_serialised_length(xs))

\* T::serialised_length: the implementation the type selects
serialised_length(t, v) ==
  CASE t \in Scalars -> Scalar_serialised_length(t)
    [] t = DATETIME -> DateTime_serialised_length
    [] t = IPV4 -> Ipv4Addr_serialised_length
    [] t = IPV6 -> Ipv6Addr_serialised_length
    [] t = IPADDR -> IpAddr_serialised_length(v)
    [] t = STR -> String_serialised_length(v)
    [] t = VERSIONS -> VersionsVector_serialised_length(v)
    [] t[1] = "arr" -> Array_serialised_length(v)
    [] t[1] = "nlv" -> NLengthVector_serialised_length(t[2], t[3], v)

\* T::bin_serialise_into: the implementation the type selects
bin_serialise_into(t, v) ==
  CASE t \in Scalars -> Scalar_bin_serialise_into(t, v)
    [] t = DATETIME -> DateTime_bin_serialise_into(v)
    [] t = IPV4 -> Ipv4Addr_bin_serialise_into(v)
    [] t = IPV6 -> Ipv6Addr_bin_serialise_into(v)
    [] t = IPADDR -> IpAddr_bin_serialise_into(v)
    [] t = STR -> String_bin_serialise_into(v)
    [] t = VERSIONS -> VersionsVector_bin_serialise_into(v)
    [] t[1] = "arr" -> Array_bin_serialise_into(t[2], v)
    [] t[1] = "nlv" -> NLengthVector_bin_serialise_into(t[2], t[3], v)

(***************************************************************************)
(* bin_deserialise_from.  A call reads the source from offset pos on; its  *)
(* outcome is Ok(val), Err(err) or a panic, with the offset it has         *)
(* consumed the source up to and the number of reads it has requested.     *)
(***************************************************************************)
Ok(v, pos, reads) == [kind |-> "ok", val |-> v, err |-> <<>>, pos |-> pos, reads |-> reads]
Err(e, pos, reads) == [kind |-> "err", val |-> <<>>, err |-> e, pos |-> pos, reads |-> reads]
Panic(pos, reads) == [kind |-> "panic", val |-> <<>>, err |-> <<>>, pos |-> pos, reads |-> reads]

\* ErrorKind::BincodeError(bincode::ErrorKind::Io(UnexpectedEof))
UnexpectedEof == <<"BincodeError", "Io", "UnexpectedEof">>

\* ErrorKind::BadDiscriminant(tag)
BadDiscriminant(tag) == <<"BadDiscriminant", tag>>

\* an outcome that is not Ok, after `before` earlier reads
Propagate(r, before) == [r EXCEPT !.reads = before + @]

\* a variant of read_exact: the slice is indexed without a check of its length
read_exact_indexing(s, pos, k) ==
  IF pos + k <= Len(s)
  THEN Ok(SubSeq(s, pos + 1, pos + k), pos + k, 1)
  ELSE Panic(pos, 1)

\* Read::read_exact of k bytes on the slice, as bincode's reader calls it
read_exact(s, pos, k) ==
  IF pos + k <= Len(s)
  THEN Ok(SubSeq(s, pos + 1, pos + k), pos + k, 1)
  ELSE Err(UnexpectedEof, pos, 1)

\* BINCODE_OPTIONS.deserialize_from for a scalar of type t
BINCODE_OPTIONS_deserialize(t, s, pos) ==
  LET r == read_exact(s, pos, Width(t))
  IN IF r.kind = "ok" THEN Ok(FromBigEndian(t, r.val), r.pos, r.reads) ELSE r

Scalar_bin_deserialise_from(t, s, pos) == BINCODE_OPTIONS_deserialize(t, s, pos)

DateTime_bin_deserialise_from(s, pos) ==
  LET timestamp == Scalar_bin_deserialise_from(U32, s, pos)
  IN IF timestamp.kind # "ok" THEN timestamp
     ELSE Ok(LocalTimestamp(timestamp.val), timestamp.pos, timestamp.reads)

Ipv4Addr_bin_deserialise_from(s, pos) ==
  LET bytes == Scalar_bin_deserialise_from(U32, s, pos)
  IN IF bytes.kind # "ok" THEN bytes
     ELSE Ok(OctetsFromBits(bytes.val), bytes.pos, bytes.reads)

Ipv6Addr_bin_deserialise_from(s, pos) ==
  LET bytes == Scalar_bin_deserialise_from(U128, s, pos)
  IN IF bytes.kind # "ok" THEN bytes
     ELSE Ok(OctetsFromBits(bytes.val), bytes.pos, bytes.reads)

IpAddr_bin_deserialise_from(s, pos) ==
  LET atype == Scalar_bin_deserialise_from(U8, s, pos)
  IN IF atype.kind # "ok" THEN atype
     ELSE LET alen == Scalar_bin_deserialise_from(U8, s, atype.pos)
          IN IF alen.kind # "ok" THEN Propagate(alen, atype.reads)
             ELSE LET before == atype.reads + alen.reads
                      addr == CASE atype.val = 4 -> Ipv4Addr_bin_deserialise_from(s, alen.pos)
                                [] atype.val = 6 -> Ipv6Addr_bin_deserialise_from(s, alen.pos)
                                [] OTHER -> Panic(alen.pos, 0)
                  IN IF addr.kind # "ok" THEN Propagate(addr, before)
                     ELSE Ok(<<IF atype.val = 4 THEN "V4" ELSE "V6", addr.val>>,
                             addr.pos, before + addr.reads)

RECURSIVE String_loop(_, _, _, _)
\* the loop of String::bin_deserialise_from, `string` being what it has pushed
String_loop(s, pos, string, reads) ==
  LET byte == Scalar_bin_deserialise_from(U8, s, pos)
  IN IF byte.kind # "ok" THEN Propagate(byte, reads)
     ELSE IF byte.val = 0 THEN Ok(string, byte.pos, reads + byte.reads)
     ELSE String_loop(s, byte.pos, Append(string, byte.val), reads + byte.reads)

String_bin_deserialise_from(s, pos) == String_loop(s, pos, <<>>, 0)

RECURSIVE bin_deserialise_from(_, _, _)
RECURSIVE deserialise_items(_, _, _, _)

\* `for _ in 0..count { list.push(T::bin_deserialise_from(stream)?) }` from
\* offset pos on: the list pushed, or the first outcome that is not Ok.  The
\* loop is evaluated by halving the count; the second half starts where the
\* first ended and is not run when the first did not end Ok.
deserialise_items(t, s, pos, count) ==
  IF count = 0 THEN Ok(<<>>, pos, 0)
  ELSE IF count = 1
  THEN LET item == bin_deserialise_from(t, s, pos)
       IN IF item.kind # "ok" THEN item ELSE Ok(<<item.val>>, item.pos, item.reads)
  ELSE LET half == count \div 2
           first == deserialise_items(t, s, pos, half)
       IN IF first.kind # "ok" THEN first
          ELSE LET rest == deserialise_items(t, s, first.pos, count - half)
               IN IF rest.kind # "ok" THEN Propagate(rest, first.reads)
                  ELSE Ok(first.val \o rest.val, rest.pos, first.reads + rest.reads)

Array_bin_deserialise_from(n, s, pos) == deserialise_items(U8, s, pos, n)

NLengthVector_bin_deserialise_from(t, n, s, pos) ==
  IF n \notin {1, 2, 4} THEN Panic(pos, 0)
  ELSE LET length == Scalar_bin_deserialise_from(CountType(n), s, pos)
       IN IF length.kind # "ok" THEN length
          ELSE LET list == deserialise_items(t, s, length.pos,
                                             CountAsNat(CountType(n), length.val))
               IN Propagate(list, length.reads)

VersionsVector_bin_deserialise_from(s, pos) ==
  LET length == Scalar_bin_deserialise_from(U16, s, pos)
  IN IF length.kind # "ok" THEN length
     ELSE LET list == deserialise_items(U16, s, length.pos, length.val \div 2)
          IN Propagate(list, length.reads)

\* T::bin_deserialise_from: the implementation the type selects
bin_deserialise_from(t, s, pos) ==
  CASE t \in Scalars -> Scalar_bin_deserialise_from(t, s, pos)
    [] t = DATETIME -> DateTime_bin_deserialise_from(s, pos)
    [] t = IPV4 -> Ipv4Addr_bin_deserialise_from(s, pos)
    [] t = IPV6 -> Ipv6Addr_bin_deserialise_from(s, pos)
    [] t = IPADDR -> IpAddr_bin_deserialise_from(s, pos)
    [] t = STR -> String_bin_deserialise_from(s, pos)
    [] t = VERSIONS -> VersionsVector_bin_deserialise_from(s, pos)
    [] t[1] = "arr" -> Array_bin_deserialise_from(t[2], s, pos)
    [] t[1] = "nlv" -> NLengthVector_bin_deserialise_from(t[2], t[3], s, pos)

(***************************************************************************)
(* The values and the sources the operations are run on.                   *)
(***************************************************************************)
\* the widths of a count prefix that the match on N accepts
Widths == {1, 2, 4}

\* the element types of the lists
ElemTypes == {U8, U16, IPADDR, STR, VERSIONS, DATETIME, NLV(U8, 1)}

Types ==
  Scalars \cup {STR, DATETIME, IPV4, IPV6, IPADDR, VERSIONS}
          \cup {ARR(0), ARR(2), ARR(7)}
          \cup {NLV(e, n) : e \in ElemTypes, n \in Widths}
          \cup {NLV(U8, 3)}

\* a type the trait is usable on: the count prefix is 1, 2 or 4 bytes wide
Supported(t) == t[1] = "nlv" => t[3] \in Widths

\* fc86:6e01:204f:498a:33cf:b30a:6171:e74f
SomeIpv6 == <<252, 134, 110, 1, 32, 79, 73, 138, 51, 207, 179, 10, 97, 113, 231, 79>>

\* "abcdefg"
Abcdefg == <<97, 98, 99, 100, 101, 102, 103>>

\* 2015-05-15 00:00:00 UTC, 1431648000 seconds after the epoch
SomeInstant == <<<<14080, 21845, 0, 0>>, 0>>

\* a versions list of n elements
LongVersions(n) == [i \in 1..n |-> 3 + (i % 2)]

\* two values of an element type, to build lists of
Items(t) ==
  CASE t = U8 -> {0, 255}
    [] t = U16 -> {3, 14819}
    [] t = IPADDR -> {<<"V4", <<227, 82, 127, 3>>>>, <<"V6", SomeIpv6>>}
    [] t = STR -> {Abcdefg, <<97, 0, 98>>}
    [] t = VERSIONS -> {<<3, 4>>, <<>>}
    [] t = DATETIME -> {SomeInstant, <<<<0, 0, 1, 0>>, 0>>}
    [] t = NLV(U8, 1) -> {<<1, 2>>, [i \in 1..Pow2_8 |-> 7]}

\* the i-th element of a long list
LongItem(t, i) ==
  CASE t = U8 -> i % Pow2_8
    [] t = U16 -> 23 * i
    [] t = STR -> IF i = 1 THEN <<97, 0, 98>> ELSE <<97 + (i % 3)>>
    [] t = VERSIONS -> <<i>>

\* the lists longer than a 1-byte count can tell, and the longest it can
LongLists(t) ==
  IF t \in {U8, U16, STR, VERSIONS}
  THEN {[i \in 1..(Pow2_8 - 1 + k) |-> LongItem(t, i)] : k \in 0..Excess}
  ELSE {}

Values(t) ==
  CASE t = U8 -> {0, 69, 255}
    [] t = U16 -> {0, 3, 14819, 65535}
    [] t = U32 -> {<<0, 0>>, <<53664, 32312>>, <<65535, 65535>>}
    [] t = U64 -> {<<1, 2, 3, 4>>, <<65535, 0, 65535, 258>>}
    [] t = U128 -> {<<52555, 28795, 9001, 36833, 10051, 17809, 61559, 10635>>}
    [] t = STR -> {<<>>, Abcdefg, <<97, 0, 98>>, <<195, 169>>}
    [] t = DATETIME -> {SomeInstant, <<<<0, 0, 1, 0>>, 0>>, <<SomeInstant[1], 500>>,
                        <<<<65535, 65535, 65535, 65535>>, 0>>}
    [] t = IPV4 -> {<<245, 67, 12, 34>>, <<227, 82, 127, 3>>}
    [] t = IPV6 -> {SomeIpv6}
    [] t = IPADDR -> Items(IPADDR) \cup {<<"V4", <<245, 67, 12, 34>>>>}
    [] t = VERSIONS -> {<<>>, <<3>>, <<3, 4>>,
                        LongVersions(Pow2_16 \div 2 - 1), LongVersions(Pow2_16 \div 2)}
    [] t = ARR(0) -> {<<>>}
    [] t = ARR(2) -> {<<1, 2>>, <<255, 0>>}
    [] t = ARR(7) -> {<<0, 54, 34, 85, 78, 45, 8>>}
    [] t[1] = "nlv" ->
         {<<>>} \cup {<<x>> : x \in Items(t[2])}
                \cup {<<x, y>> : x \in Items(t[2]), y \in Items(t[2])}
                \cup (IF t[2] = U16 THEN {<<0, 23, 86, 35, 96, 83>>} ELSE {})
                \cup LongLists(t[2])

\* the bytes the arbitrary sources and the corruptions are made of
SrcBytes == {0, 1, 2, 4, 6, 127}

Sources == UNION {[1..n -> SrcBytes] : n \in 0..MaxSrcLen}

\* written bytes short enough to be cut and corrupted at every offset
Short(s) == Len(s) <= MaxWritten

\* the offsets the written bytes are cut at
CutPoints(s) == {j \in 0..(Len(s) - 1) : Short(s) \/ j <= MaxCut}

\* the offsets one byte of the written bytes is replaced at
CorruptPoints(s) == {i \in 1..Len(s) : Short(s) /\ i <= MaxCut}

NoOutcome == [kind |-> "none", val |-> <<>>, err |-> <<>>, pos |-> 0, reads |-> 0]

(***************************************************************************)
(* The state machine: starting with an empty Vec and no slice, a caller    *)
(* serialises a value and then deserialises from what was written, or      *)
(* deserialises a type from a slice of bytes received.  No call keeps      *)
(* state, so one run of calls is all there is to a behaviour.              *)
(***************************************************************************)
Init ==
  /\ phase = "idle"
  /\ self = <<U8>>
  /\ sink = <<>>
  /\ ret = 0
  /\ src = <<>>
  /\ framing = <<>>
  /\ result = <<U8, "none", NoOutcome>>

\* read_exact leaves how much of the slice it consumed on a short read to
\* the implementation: nothing, or all that was left
Consumed(r, s) == IF r.kind = "err" THEN {r.pos, Len(s)} ELSE {r.pos}

\* T::bin_deserialise_from(s) with T = t
Decode(t, s) ==
  LET r == bin_deserialise_from(t, s, 0)
  IN \E p \in Consumed(r, s) : result' = <<t, r.kind, [r EXCEPT !.pos = p]>>

\* value.bin_serialise_into(&mut buffer) on an empty buffer
Serialise ==
  /\ phase = "idle"
  /\ \E t \in Types : \E v \in Values(t) :
       LET r == bin_serialise_into(t, v)
       IN /\ phase' = IF r.kind = "ok" THEN "serialised" ELSE "panicked"
          /\ self' = <<t, v>>
          /\ sink' = r.bytes
          /\ ret' = r.ret
          /\ result' = <<t, "none", NoOutcome>>
  /\ src' = <<>>
  /\ framing' = <<>>

\* T::bin_deserialise_from on arbitrary bytes
Deserialise ==
  /\ phase = "idle"
  /\ phase' = "decoded"
  /\ \E t \in Types : \E s \in Sources :
       /\ self' = <<t>>
       /\ src' = s
       /\ Decode(t, s)
  /\ sink' = <<>>
  /\ ret' = 0
  /\ framing' = <<>>

\* T::bin_deserialise_from(buffer.as_slice()) on exactly the bytes written
DeserialiseWritten ==
  /\ phase = "serialised"
  /\ phase' = "roundtrip"
  /\ src' = sink
  /\ Decode(ty, sink)
  /\ UNCHANGED <<self, sink, ret, framing>>

\* T::bin_deserialise_from on the first j of the bytes written
DeserialiseTruncated ==
  /\ phase = "serialised"
  /\ \E j \in CutPoints(sink) :
       /\ src' = SubSeq(sink, 1, j)
       /\ Decode(ty, SubSeq(sink, 1, j))
  /\ phase' = "truncated"
  /\ UNCHANGED <<self, sink, ret, framing>>

\* T::bin_deserialise_from on the bytes written with one of them replaced
DeserialiseCorrupted ==
  /\ phase = "serialised"
  /\ \E i \in CorruptPoints(sink) : \E b \in SrcBytes \ {sink[i]} :
       /\ src' = [sink EXCEPT ![i] = b]
       /\ Decode(ty, [sink EXCEPT ![i] = b])
  /\ phase' = "corrupted"
  /\ UNCHANGED <<self, sink, ret, framing>>

\* the payload of a Versions cell: the elements alone, their number carried by
\* the cell's framing.  The trait gives the caller one decoder, which takes
\* the stream and nothing else.
DeserialiseFramed ==
  /\ phase = "idle"
  /\ phase' = "framed"
  /\ \E xs \in {<<>>, <<3>>, <<3, 4>>, <<4, 3, 5>>} :
       LET payload == serialise_items(U16, xs, 1, Len(xs)).bytes
       IN /\ self' = <<VERSIONS, xs>>
          /\ src' = payload
          /\ framing' = <<Len(xs)>>
          /\ Decode(VERSIONS, payload)
  /\ sink' = <<>>
  /\ ret' = 0

Next ==
  \/ Serialise
  \/ Deserialise
  \/ DeserialiseWritten
  \/ DeserialiseTruncated
  \/ DeserialiseCorrupted
  \/ DeserialiseFramed

Spec == Init /\ [][Next]_vars

\* a state in which a decoder has run
Decoded == phase \in {"decoded", "roundtrip", "truncated", "corrupted", "framed"}

(***************************************************************************)
(* What the properties are stated with.                                    *)
(***************************************************************************)
Min(S) == CHOOSE m \in S : \A k \in S : m <= k

IsList(t) == t[1] = "nlv"

\* an N-byte count can tell a list of len elements (a 4-byte count can tell
\* every length the model has)
Fits(n, len) == n = 4 \/ len < (IF n = 1 THEN Pow2_8 ELSE Pow2_16)

\* len modulo 2^(8n)
Narrowed(n, len) == IF n = 4 THEN len ELSE len % (IF n = 1 THEN Pow2_8 ELSE Pow2_16)

\* the encodings of the elements xs of type t, one after the other
Flat(t, xs) == serialise_items(t, xs, 1, Len(xs)).bytes

RECURSIVE InDomain(_, _)
\* the values of a type that the wire format can tell apart: a string without
\* the sentinel byte, an instant of whole seconds in 0..2^32-1, a list whose
\* length fits its count prefix and whose elements are such values, a versions
\* list whose byte length fits 16 bits
InDomain(t, v) ==
  CASE t = STR -> \A i \in 1..Len(v) : v[i] # 0
    [] t = DATETIME -> v[1][3] = 0 /\ v[1][4] = 0 /\ v[2] = 0
    [] t = VERSIONS -> 2 * Len(v) < Pow2_16
    [] IsList(t) -> /\ t[3] \in Widths
                    /\ Fits(t[3], Len(v))
                    /\ \A i \in 1..Len(v) : InDomain(t[2], v[i])
    [] OTHER -> TRUE

RECURSIVE Need(_, _, _)
RECURSIVE NeedItems(_, _, _, _)
\* the offset a value of type t that starts at offset pos of s ends at, going by
\* the widths of the types and by the counts, tags and sentinels s holds; more
\* than Len(s) when s ends before the value does; -1 when s holds a tag that
\* selects no variant
Need(t, s, pos) ==
  CASE t \in Scalars -> pos + Width(t)
    [] t \in {DATETIME, IPV4} -> pos + 4
    [] t = IPV6 -> pos + 16
    [] t = IPADDR -> IF pos + 2 > Len(s) THEN pos + 2
                     ELSE IF s[pos + 1] = 4 THEN pos + 6
                     ELSE IF s[pos + 1] = 6 THEN pos + 18
                     ELSE -1
    [] t = STR -> LET zeros == {i \in (pos + 1)..Len(s) : s[i] = 0}
                  IN IF zeros = {} THEN Len(s) + 1 ELSE Min(zeros)
    [] t = VERSIONS -> IF pos + 2 > Len(s) THEN pos + 2
                       ELSE pos + 2 + 2 * ((s[pos + 1] * Pow2_8 + s[pos + 2]) \div 2)
    [] t[1] = "arr" -> pos + t[2]
    [] IsList(t) ->
         IF pos + t[3] > Len(s) THEN pos + t[3]
         ELSE NeedItems(t[2], s, pos + t[3],
                CountAsNat(CountType(t[3]),
                           FromBigEndian(CountType(t[3]), SubSeq(s, pos + 1, pos + t[3]))))

\* the offset count values of type t that start at offset pos of s end at
NeedItems(t, s, pos, count) ==
  IF count = 0 THEN pos
  ELSE IF count = 1 THEN Need(t, s, pos)
  ELSE LET half == count \div 2
           mid == NeedItems(t, s, pos, half)
       IN IF mid = -1 \/ mid > Len(s) THEN mid
          ELSE NeedItems(t, s, mid, count - half)

\* the fixed-width types and the length-prefixed types
FixedOrPrefixed(t) ==
  \/ t \in Scalars \cup {DATETIME, IPV4, IPV6, VERSIONS}
  \/ t[1] = "arr"
  \/ IsList(t) /\ t[3] \in Widths

(***************************************************************************)
(* The properties.                                                         *)
(***************************************************************************)
\* C1: for every supported type and every value, serialised_length(v) is the
\* number of bytes a successful bin_serialise_into(v) appends to the sink (for
\* a VersionsVector the 2-byte length prefix included).
C1_SizeIsBytesWritten ==
  phase = "serialised" => serialised_length(ty, val) = Len(sink)

\* C2: for every supported type and every value, deserialising exactly the
\* bytes that serialising the value wrote succeeds and returns the value.
C2_RoundTrip ==
  phase = "roundtrip" => out.kind = "ok" /\ out.val = val

\* C2, amended: the round trip returns the value for every value the wire
\* format can tell apart (InDomain), and it consumes all the bytes written.
C2_RoundTripInDomain ==
  (phase = "roundtrip" /\ InDomain(ty, val))
    => out.kind = "ok" /\ out.val = val /\ out.pos = Len(src)

C2_Witness ==
  /\ phase = "roundtrip"
  /\ ty = NLV(U16, 1)
  /\ val = <<0, 23, 86, 35, 96, 83>>
  /\ src = <<6, 0, 0, 0, 23, 0, 86, 0, 35, 0, 96, 0, 83>>
  /\ out.kind = "ok"
  /\ out.val = val

C4_BadTagIsBadDiscriminant ==
  (Decoded /\ ty = IPADDR /\ Len(src) >= 2 /\ src[1] \notin {4, 6})
    => out.kind = "err" /\ out.err = BadDiscriminant(src[1])

\* C5: NLengthVector::bin_serialise_into writes the element count as an N-byte
\* big-endian integer, then the elements' encodings in order, and returns N
\* plus the sum of the elements' encoded sizes, which is the number of bytes
\* written (stated for the lists whose length the count prefix can tell).
C5_ListEncoding ==
  (phase = "serialised" /\ IsList(ty) /\ Fits(ty[3], Len(val)))
    => LET n == ty[3]
       IN /\ SubSeq(sink, 1, n)
               = BINCODE_OPTIONS_serialize(CountType(n), AsUnsigned(CountType(n), Len(val)))
          /\ SubSeq(sink, n + 1, Len(sink)) = Flat(ty[2], val)
          /\ ret = n + Len(Flat(ty[2], val))
          /\ ret = Len(sink)

C7_WireString ==
  /\ (phase = "serialised" /\ ty = STR) => sink = val \o <<0>>
  /\ (phase = "serialised" /\ ty = STR /\ val = Abcdefg)
       => sink = <<97, 98, 99, 100, 101, 102, 103, 0>>
  /\ (Decoded /\ ty = STR /\ \E i \in 1..Len(src) : src[i] = 0)
       => LET first == Min({i \in 1..Len(src) : src[i] = 0})
          IN /\ out.kind = "ok"
             /\ out.val = SubSeq(src, 1, first - 1)
             /\ out.pos = first

C7_Witness ==
  /\ phase = "roundtrip"
  /\ ty = STR
  /\ val = <<97, 0, 98>>
  /\ src = <<97, 0, 98, 0>>
  /\ out.val = <<97>>
  /\ out.pos = 2

\* C8: VersionsVector has a second decode entry point that reads no prefix and
\* takes the element count from the caller: the prefix-less bytes of a list,
\* with its element count supplied, decode to the list ([0,3,0,4] with count 2
\* to [3,4]).
C8_ExternallyFramedDecode ==
  (phase = "framed" /\ src = <<0, 3, 0, 4>> /\ framing = <<2>>)
    => out.kind = "ok" /\ out.val = <<3, 4>>

\* C9: NLengthVector::bin_deserialise_from reads the count c and ends with the
\* complete list of c elements or with exactly one error and no list.
C9_ListDecodeAtomic ==
  (Decoded /\ IsList(ty) /\ ty[3] \in Widths /\ Len(src) >= ty[3])
    => LET c == CountAsNat(CountType(ty[3]),
                           FromBigEndian(CountType(ty[3]), SubSeq(src, 1, ty[3])))
       IN \/ out.kind = "ok" /\ Len(out.val) = c
          \/ out.kind = "err" /\ out.err # <<>> /\ out.val = <<>>

=============================================================================
